---- MODULE Spec2Model ----
(***************************************************************************)
(* Model of background_installer.py: the batch scheduler run by the        *)
(* daemon (main_installation with install_batch / uninstall_batch and the  *)
(* signal handler) and the command-line lifecycle around the pid file      *)
(* (check_existing_process, daemonize, cleanup_pid_file, stop_process).    *)
(***************************************************************************)
EXTENDS Integers, Sequences, FiniteSets, TLC

(***************************************************************************)
(* Program constants.                                                      *)
(***************************************************************************)
TotalMin == 161
TotalMax == 199
BatchMin == 5
BatchMax == 14
DelayMinutesMin == 7
DelayMinutesMax == 16
JitterMax == 59
NextDelayMin == 60
NextDelayMax == 180
TickSeconds == 10
CleanupEvery == 5
CatalogSize == 256

(***************************************************************************)
(* Bounds of the model.                                                    *)
(***************************************************************************)
\* Iterations of a wait loop that are stepped through one by one; the code
\* runs 42..101 (post-install) or 6..18 (inter-batch) of them.
MaxTicks == 2
\* Batches the item-by-item specification walks through.
MaxBatches == 5
\* Terminals from which commands are typed (commands that can overlap).
NumTerminals == 2
\* Daemons that can be started in one behaviour; each gets a fresh process id.
MaxDaemons == 2
\* Iterations of the main loop that the fair specification lets a run begin;
\* no run of the program needs more (199 items in batches of 5, the last of 4).
MaxRunBatches == 40
\* Samples of each size that random.sample can return in the model.
MaxSamples == 2

Min(a, b) == IF a < b THEN a ELSE b

TotalRange == TotalMin..TotalMax
TotalEdges == {TotalMin, TotalMax}
BatchRange == BatchMin..BatchMax
BatchEdges == {BatchMin, BatchMax}

\* What a subprocess.run call can do: return code 0, a non-zero return code,
\* raise TimeoutExpired, raise another exception (apt missing, OSError...).
Outcomes == {"ok", "fail", "timeout", "error"}

VARIABLES
    pc,                 \* position of the daemon inside main_installation
    shutdown_flag,      \* global shutdown_flag
    total_apps,         \* total_apps
    processed_apps,     \* processed_apps
    batch_number,       \* batch_number
    batch_size,         \* batch_size (0 when no batch is selected)
    whole_result,       \* outcome of the whole-batch call of the current phase
    attempted,          \* items attempted one by one in the current phase
    success_count,      \* success_count of install_batch's fallback loop
    ret,                \* value returned by the last install/uninstall call
    ticks_left,         \* iterations the current wait loop still has to run
    outcome_first,      \* outcome line logged before the final cleanup
    outcome_last,       \* outcome line logged after the final cleanup
    cancelled_in_wait,  \* history: the flag was set during the post-install wait
    ticks_after_cancel  \* history: sleeps completed in that wait with the flag set

schedVars == <<pc, shutdown_flag, total_apps, processed_apps, batch_number,
               batch_size, whole_result, attempted, success_count, ret,
               ticks_left, outcome_first, outcome_last, cancelled_in_wait,
               ticks_after_cancel>>

VARIABLES
    pid_file,           \* the text in the pid file, or NoFile
    tpc,                \* per terminal: "prompt", or where its command waits
    tcmd,               \* per terminal: the last command typed (sys.argv[1])
    stop_pid,           \* per terminal: stop_process's local pid
    sent,               \* per terminal: signals stop_process passed to os.kill
    msg,                \* per terminal: what that command printed last
    exit_code,          \* per terminal: exit status of that command
    dphase,             \* per daemon: where it is in main_installation
    daemon_flag,        \* per daemon: its shutdown_flag (FALSE once it is gone)
    term_in_wait,       \* history, per living daemon: stop's SIGTERM reached
                        \* it in a cancellable wait
    stops_done,         \* history: stops that returned since the pid file was
                        \* last written (0, 1, or 2 for two and more)
    overlap             \* history: a command began while another was running

procVars == <<pid_file, tpc, tcmd, stop_pid, sent, msg, exit_code, dphase,
              daemon_flag, term_in_wait, stops_done, overlap>>

VARIABLES
    signal_logged,      \* the log holds a "Received signal" line
    install_calls,      \* history: calls of install_batch so far
    uninstall_calls,    \* history: calls of uninstall_batch so far
    ok_items,           \* history: item-by-item installs of the current batch
                        \* that apt ended with return code 0
    periodic_cleanups   \* history: calls of cleanup_system inside the loop

countVars == <<signal_logged, install_calls, uninstall_calls, ok_items,
               periodic_cleanups>>

VARIABLES
    batch_apps,         \* batch_apps: the sample, as a set of catalog positions
    installed_apps,     \* history: apps_list of this iteration's install_batch
    uninstalled_apps    \* history: apps_list of this iteration's uninstall_batch

itemVars == <<batch_apps, installed_apps, uninstalled_apps>>

vars == <<schedVars, procVars, countVars, itemVars>>

Terminals == 1..NumTerminals
Daemons == 1..MaxDaemons
\* The id of a process of an earlier session, which no longer exists.
LeftoverPid == MaxDaemons + 1

\* Phases of a daemon that is inside main_installation.
RunningPhases == {"update", "install", "install_wait", "uninstall",
                  "next_wait", "periodic_cleanup", "final_cleanup"}
\* The waits that poll shutdown_flag every tick.
CancellableWaits == {"install_wait", "next_wait"}

\* The pid file does not exist.
NoFile == "absent"
\* Text that int() rejects.
CorruptText == "not-a-number"

\* str(os.getpid())
PidText(pid) == ToString(pid)
\* int(f.read().strip()) returns a value (no ValueError)
IsPidText(text) == \E p \in 1..LeftoverPid : PidText(p) = text
\* int(f.read().strip())
PidOf(text) == CHOOSE p \in 1..LeftoverPid : PidText(p) = text

\* os.kill(pid, 0) succeeds
Alive(pid) == pid \in Daemons /\ dphase[pid] \in RunningPhases

\* Every terminal at the prompt, no daemon started yet.
ProcQuiet ==
    /\ tpc = [t \in Terminals |-> "prompt"]
    /\ tcmd = [t \in Terminals |-> "none"]
    /\ stop_pid = [t \in Terminals |-> 0]
    /\ sent = [t \in Terminals |-> <<>>]
    /\ msg = [t \in Terminals |-> "none"]
    /\ exit_code = [t \in Terminals |-> 0]
    /\ dphase = [d \in Daemons |-> "unborn"]
    /\ daemon_flag = [d \in Daemons |-> FALSE]
    /\ term_in_wait = [d \in Daemons |-> FALSE]
    /\ stops_done = 0
    /\ overlap = FALSE

\* The command-line level: the pid file may be left over from an earlier
\* session (naming a dead process, or damaged).
ProcInit ==
    /\ pid_file \in {NoFile, CorruptText, PidText(LeftoverPid)}
    /\ ProcQuiet


\* Positions of lines 481-494, the post-install wait.
InstallWaitPcs == {"draw_delay", "wait_check", "wait_sleep", "post_wait_check"}

SchedInit ==
    /\ pc = "update"
    /\ shutdown_flag = FALSE
    /\ total_apps = 0
    /\ processed_apps = 0
    /\ batch_number = 0
    /\ batch_size = 0
    /\ whole_result = "none"
    /\ attempted = 0
    /\ success_count = 0
    /\ ret = "none"
    /\ ticks_left = 0
    /\ outcome_first = "none"
    /\ outcome_last = "none"
    /\ cancelled_in_wait = FALSE
    /\ ticks_after_cancel = 0
    /\ signal_logged = FALSE
    /\ install_calls = 0
    /\ uninstall_calls = 0
    /\ ok_items = 0
    /\ periodic_cleanups = 0
    /\ batch_apps = {}
    /\ installed_apps = {}
    /\ uninstalled_apps = {}


\* signal_handler: logger.info("Received signal ..."); shutdown_flag = True
Signal ==
    /\ pc # "exited"
    /\ signal_logged' = TRUE
    /\ shutdown_flag' = TRUE
    /\ cancelled_in_wait' =
          (cancelled_in_wait \/ (pc \in InstallWaitPcs /\ ~shutdown_flag))
    /\ UNCHANGED <<procVars, itemVars, install_calls, uninstall_calls, ok_items,
                   periodic_cleanups, outcome_first, outcome_last, pc, total_apps, processed_apps, batch_number, batch_size,
                   whole_result, attempted, success_count, ret, ticks_left,
                   ticks_after_cancel>>

\* update_system returns True unless the call timed out or raised.
UpdateReturns(o) == o \in {"ok", "fail"}

\* if not update_system(logger): the value only selects a warning line and
\* is not kept.
Update ==
    /\ pc = "update"
    /\ \E o \in Outcomes : UpdateReturns(o) \in BOOLEAN
    /\ pc' = "draw_total"
    /\ UNCHANGED <<procVars, itemVars, countVars, outcome_first, outcome_last, shutdown_flag,
                   total_apps, processed_apps, batch_number, batch_size,
                   whole_result, attempted, success_count, ret, ticks_left,
                   cancelled_in_wait, ticks_after_cancel>>

\* total_apps = random.randint(161, 199); processed_apps = 0; batch_number = 0
DrawTotal(choices) ==
    /\ pc = "draw_total"
    /\ \E q \in choices : total_apps' = q
    /\ processed_apps' = 0
    /\ batch_number' = 0
    /\ pc' = "loop_test"
    /\ UNCHANGED <<procVars, itemVars, countVars, outcome_first, outcome_last, shutdown_flag, batch_size, whole_result, attempted,
                   success_count, ret, ticks_left, cancelled_in_wait,
                   ticks_after_cancel>>

\* while processed_apps < total_apps and not shutdown_flag: batch_number += 1
LoopTest ==
    /\ pc = "loop_test"
    /\ IF processed_apps < total_apps /\ ~shutdown_flag
          THEN /\ batch_number' = batch_number + 1
               /\ pc' = "shutdown_check"
          ELSE /\ batch_number' = batch_number
               /\ pc' = "final_log"
    /\ UNCHANGED <<procVars, itemVars, countVars, outcome_first, outcome_last, shutdown_flag, total_apps, processed_apps, batch_size,
                   whole_result, attempted, success_count, ret, ticks_left,
                   cancelled_in_wait, ticks_after_cancel>>

\* if shutdown_flag: break
ShutdownCheck ==
    /\ pc = "shutdown_check"
    /\ pc' = IF shutdown_flag THEN "final_log" ELSE "select"
    /\ UNCHANGED <<procVars, itemVars, countVars, outcome_first, outcome_last, shutdown_flag, total_apps, processed_apps, batch_number,
                   batch_size, whole_result, attempted, success_count, ret,
                   ticks_left, cancelled_in_wait, ticks_after_cancel>>

\* Mutant: the draw is never shrunk to the remainder.
BatchSizeFor_NoClamp(draw, processed, total) == draw

\* Mutant: the remainder is computed one short.
BatchSizeFor_OffByOne(draw, processed, total) ==
    IF processed + draw > total THEN total - processed - 1 ELSE draw

\* The size of the batch for a draw: the draw, shrunk to the remainder.
BatchSizeFor(draw, processed, total) ==
    IF processed + draw > total THEN total - processed ELSE draw

\* len(random.sample(ALL_USEFUL_APPS, min(batch_size, len(ALL_USEFUL_APPS))))
SampleLen(size) == Min(size, CatalogSize)

\* The positions of ALL_USEFUL_APPS.
Catalog == 1..CatalogSize

\* The samples of k items that random.sample(ALL_USEFUL_APPS, k) returns in
\* the model: k positions in a row, from one of the positions in firsts on.
SamplesFrom(firsts, k) ==
    {{((first + i - 1) % CatalogSize) + 1 : i \in 0..(k - 1)} :
        first \in firsts}

\* The first positions the item-by-item specification draws samples from.
SampleStarts == 1..MaxSamples

\* The one sample per size of the whole-run specifications, whose counters do
\* not depend on which items were drawn.
FirstSample == {1}

Samples(k) == SamplesFrom(SampleStarts, k)

\* batch_size = random.randint(5, 14), adjusted; batch_apps = random.sample(...)
SelectBatch(choices, firsts) ==
    /\ pc = "select"
    /\ \E draw \in choices :
          /\ batch_size' = BatchSizeFor(draw, processed_apps, total_apps)
          /\ batch_apps' \in
                SamplesFrom(firsts,
                            SampleLen(BatchSizeFor(draw, processed_apps,
                                                   total_apps)))
    /\ whole_result' = "none"
    /\ attempted' = 0
    /\ success_count' = 0
    /\ pc' = "install"
    /\ ok_items' = 0
    /\ installed_apps' = {}
    /\ uninstalled_apps' = {}
    /\ UNCHANGED <<procVars, signal_logged, install_calls, uninstall_calls,
                   periodic_cleanups, outcome_first, outcome_last, shutdown_flag, total_apps, processed_apps, batch_number,
                   ret, ticks_left, cancelled_in_wait, ticks_after_cancel>>

\* Mutant: a non-zero return code returns False at once, as an exception does.
InstallWhole_NoFallback ==
    /\ pc = "install"
    /\ \E o \in Outcomes :
          /\ whole_result' = o
          /\ ret' = (o = "ok")
    /\ pc' = "pre_wait_check"
    /\ attempted' = 0
    /\ success_count' = 0
    /\ install_calls' = install_calls + 1
    /\ ok_items' = 0
    /\ installed_apps' = batch_apps
    /\ UNCHANGED <<procVars, batch_apps, uninstalled_apps, signal_logged, uninstall_calls,
                   periodic_cleanups, outcome_first, outcome_last, shutdown_flag,
                   total_apps, processed_apps, batch_number, batch_size,
                   ticks_left, cancelled_in_wait, ticks_after_cancel>>

\* install_batch, the whole-batch call: return code 0 returns True, a non-zero
\* return code enters the item-by-item loop, an exception returns False.
InstallWhole ==
    /\ pc = "install"
    /\ \E o \in Outcomes :
          /\ whole_result' = o
          /\ pc' = IF o = "fail" THEN "install_item" ELSE "pre_wait_check"
          /\ ret' = IF o = "fail" THEN ret ELSE (o = "ok")
    /\ attempted' = 0
    /\ success_count' = 0
    /\ install_calls' = install_calls + 1
    /\ ok_items' = 0
    /\ installed_apps' = batch_apps
    /\ UNCHANGED <<procVars, batch_apps, uninstalled_apps, signal_logged, uninstall_calls,
                   periodic_cleanups, outcome_first, outcome_last, shutdown_flag, total_apps, processed_apps, batch_number,
                   batch_size, ticks_left, cancelled_in_wait,
                   ticks_after_cancel>>

\* Mutant: every call that returns counts as a success, whatever its code.
InstallItem_CountsReturned ==
    /\ pc = "install_item"
    /\ attempted < SampleLen(batch_size)
    /\ \E o \in Outcomes :
          /\ ok_items' = IF o = "ok" THEN ok_items + 1 ELSE ok_items
          /\ success_count' =
                IF o \in {"ok", "fail"} THEN success_count + 1
                                        ELSE success_count
    /\ attempted' = attempted + 1
    /\ UNCHANGED <<procVars, itemVars, signal_logged, install_calls, uninstall_calls,
                   periodic_cleanups, outcome_first, outcome_last, pc,
                   shutdown_flag, total_apps, processed_apps, batch_number,
                   batch_size, whole_result, ret, ticks_left,
                   cancelled_in_wait, ticks_after_cancel>>

\* install_batch, one pass of "for app in apps_list": the bare except keeps
\* the loop going whatever the call does.
InstallItem ==
    /\ pc = "install_item"
    /\ attempted < SampleLen(batch_size)
    /\ \E o \in Outcomes :
          /\ ok_items' = IF o = "ok" THEN ok_items + 1 ELSE ok_items
          /\ success_count' =
                IF o = "ok" THEN success_count + 1 ELSE success_count
    /\ attempted' = attempted + 1
    /\ UNCHANGED <<procVars, itemVars, signal_logged, install_calls, uninstall_calls,
                   periodic_cleanups, outcome_first, outcome_last, pc, shutdown_flag, total_apps, processed_apps, batch_number,
                   batch_size, whole_result, ret, ticks_left,
                   cancelled_in_wait, ticks_after_cancel>>

\* install_batch, after the loop: return success_count > 0
InstallFallbackReturn ==
    /\ pc = "install_item"
    /\ attempted = SampleLen(batch_size)
    /\ ret' = (success_count > 0)
    /\ pc' = "pre_wait_check"
    /\ UNCHANGED <<procVars, itemVars, countVars, outcome_first, outcome_last, shutdown_flag, total_apps, processed_apps, batch_number,
                   batch_size, whole_result, attempted, success_count,
                   ticks_left, cancelled_in_wait, ticks_after_cancel>>

\* "Check for shutdown before delay": if shutdown_flag: break
PreWaitCheck ==
    /\ pc = "pre_wait_check"
    /\ pc' = IF shutdown_flag THEN "final_log" ELSE "draw_delay"
    /\ UNCHANGED <<procVars, itemVars, countVars, outcome_first, outcome_last, shutdown_flag, total_apps, processed_apps, batch_number,
                   batch_size, whole_result, attempted, success_count, ret,
                   ticks_left, cancelled_in_wait, ticks_after_cancel>>

\* range(seconds // 10)
WaitIterations(seconds) == seconds \div TickSeconds

\* The iterations the model steps through.
SteppedIterations(seconds) == Min(MaxTicks, WaitIterations(seconds))

\* delay_minutes = random.randint(7, 16);
\* delay_seconds = delay_minutes * 60 + random.randint(0, 59)
DrawDelay ==
    /\ pc = "draw_delay"
    /\ \E m \in DelayMinutesMin..DelayMinutesMax, j \in 0..JitterMax :
          ticks_left' = SteppedIterations(m * 60 + j)
    /\ pc' = "wait_check"
    /\ UNCHANGED <<procVars, itemVars, countVars, outcome_first, outcome_last, shutdown_flag, total_apps, processed_apps, batch_number,
                   batch_size, whole_result, attempted, success_count, ret,
                   cancelled_in_wait, ticks_after_cancel>>

\* Mutant: the loop does not look at the flag and sleeps the whole delay.
WaitCheck_IgnoresFlag ==
    /\ pc = "wait_check"
    /\ pc' = IF ticks_left = 0 THEN "post_wait_check" ELSE "wait_sleep"
    /\ UNCHANGED <<procVars, itemVars, countVars, outcome_first, outcome_last, shutdown_flag,
                   total_apps, processed_apps, batch_number, batch_size,
                   whole_result, attempted, success_count, ret, ticks_left,
                   cancelled_in_wait, ticks_after_cancel>>

\* The head of "for _ in range(...)": leave when the range is used up or,
\* "if shutdown_flag: break", when the flag is set.
WaitCheck ==
    /\ pc = "wait_check"
    /\ pc' = IF ticks_left = 0 \/ shutdown_flag
                THEN "post_wait_check" ELSE "wait_sleep"
    /\ UNCHANGED <<procVars, itemVars, countVars, outcome_first, outcome_last, shutdown_flag, total_apps, processed_apps, batch_number,
                   batch_size, whole_result, attempted, success_count, ret,
                   ticks_left, cancelled_in_wait, ticks_after_cancel>>

\* time.sleep(10): a signal does not cut it short, the sleep runs to its end.
WaitSleep ==
    /\ pc = "wait_sleep"
    /\ ticks_left' = ticks_left - 1
    /\ ticks_after_cancel' =
          IF shutdown_flag THEN ticks_after_cancel + 1 ELSE ticks_after_cancel
    /\ pc' = "wait_check"
    /\ UNCHANGED <<procVars, itemVars, countVars, outcome_first, outcome_last, shutdown_flag, total_apps, processed_apps, batch_number,
                   batch_size, whole_result, attempted, success_count, ret,
                   cancelled_in_wait>>

\* Mutant: the check after the wait is missing; the uninstall always follows.
PostWaitCheck_IgnoresFlag ==
    /\ pc = "post_wait_check"
    /\ pc' = "uninstall"
    /\ UNCHANGED <<procVars, itemVars, countVars, outcome_first, outcome_last,
                   shutdown_flag, total_apps, processed_apps, batch_number,
                   batch_size, whole_result, attempted, success_count, ret,
                   ticks_left, cancelled_in_wait, ticks_after_cancel>>

\* After the wait: if shutdown_flag: break
PostWaitCheck ==
    /\ pc = "post_wait_check"
    /\ pc' = IF shutdown_flag THEN "final_log" ELSE "uninstall"
    /\ UNCHANGED <<procVars, itemVars, countVars, outcome_first, outcome_last, shutdown_flag, total_apps, processed_apps, batch_number,
                   batch_size, whole_result, attempted, success_count, ret,
                   ticks_left, cancelled_in_wait, ticks_after_cancel>>

\* Mutant: a new sample is drawn for the uninstall.
UninstallWhole_Resamples ==
    /\ pc = "uninstall"
    /\ \E o \in Outcomes :
          /\ whole_result' = o
          /\ pc' = IF o = "fail" THEN "uninstall_item" ELSE "update_count"
          /\ ret' = IF o = "fail" THEN ret ELSE (o = "ok")
    /\ attempted' = 0
    /\ uninstall_calls' = uninstall_calls + 1
    /\ batch_apps' \in Samples(SampleLen(batch_size))
    /\ uninstalled_apps' = batch_apps'
    /\ UNCHANGED <<procVars, installed_apps, signal_logged, install_calls,
                   ok_items, periodic_cleanups, outcome_first, outcome_last,
                   shutdown_flag, total_apps, processed_apps, batch_number,
                   batch_size, success_count, ticks_left, cancelled_in_wait,
                   ticks_after_cancel>>

\* uninstall_batch, the whole-batch call.
UninstallWhole ==
    /\ pc = "uninstall"
    /\ \E o \in Outcomes :
          /\ whole_result' = o
          /\ pc' = IF o = "fail" THEN "uninstall_item" ELSE "update_count"
          /\ ret' = IF o = "fail" THEN ret ELSE (o = "ok")
    /\ attempted' = 0
    /\ uninstall_calls' = uninstall_calls + 1
    /\ uninstalled_apps' = batch_apps
    /\ UNCHANGED <<procVars, batch_apps, installed_apps, signal_logged, install_calls, ok_items,
                   periodic_cleanups, outcome_first, outcome_last, shutdown_flag, total_apps, processed_apps, batch_number,
                   batch_size, success_count, ticks_left, cancelled_in_wait,
                   ticks_after_cancel>>

\* uninstall_batch, one pass of "for app in apps_list": the call's return code
\* is ignored; an exception leaves the loop through the outer handlers, which
\* return False.
UninstallItem ==
    /\ pc = "uninstall_item"
    /\ attempted < SampleLen(batch_size)
    /\ attempted' = attempted + 1
    /\ \E o \in Outcomes :
          IF o \in {"ok", "fail"}
             THEN UNCHANGED <<procVars, itemVars, countVars, outcome_first, outcome_last, pc, ret>>
             ELSE pc' = "update_count" /\ ret' = FALSE
    /\ UNCHANGED <<procVars, itemVars, countVars, outcome_first, outcome_last, shutdown_flag, total_apps, processed_apps, batch_number,
                   batch_size, whole_result, success_count, ticks_left,
                   cancelled_in_wait, ticks_after_cancel>>

\* uninstall_batch, after the loop: return True
UninstallFallbackReturn ==
    /\ pc = "uninstall_item"
    /\ attempted = SampleLen(batch_size)
    /\ ret' = TRUE
    /\ pc' = "update_count"
    /\ UNCHANGED <<procVars, itemVars, countVars, outcome_first, outcome_last, shutdown_flag, total_apps, processed_apps, batch_number,
                   batch_size, whole_result, attempted, success_count,
                   ticks_left, cancelled_in_wait, ticks_after_cancel>>

\* processed_apps += batch_size
UpdateCount ==
    /\ pc = "update_count"
    /\ processed_apps' = processed_apps + batch_size
    /\ pc' = "next_delay"
    /\ UNCHANGED <<procVars, itemVars, countVars, outcome_first, outcome_last, shutdown_flag, total_apps, batch_number, batch_size,
                   whole_result, attempted, success_count, ret, ticks_left,
                   cancelled_in_wait, ticks_after_cancel>>

\* if processed_apps < total_apps and not shutdown_flag:
\*     next_delay = random.randint(60, 180)
NextDelay ==
    /\ pc = "next_delay"
    /\ IF processed_apps < total_apps /\ ~shutdown_flag
          THEN /\ \E d \in NextDelayMin..NextDelayMax :
                     ticks_left' = SteppedIterations(d)
               /\ pc' = "next_wait_check"
          ELSE /\ ticks_left' = ticks_left
               /\ pc' = "periodic"
    /\ UNCHANGED <<procVars, itemVars, countVars, outcome_first, outcome_last, shutdown_flag, total_apps, processed_apps, batch_number,
                   batch_size, whole_result, attempted, success_count, ret,
                   cancelled_in_wait, ticks_after_cancel>>

\* The inter-batch loop head, as WaitCheck.
NextWaitCheck ==
    /\ pc = "next_wait_check"
    /\ pc' = IF ticks_left = 0 \/ shutdown_flag
                THEN "periodic" ELSE "next_wait_sleep"
    /\ UNCHANGED <<procVars, itemVars, countVars, outcome_first, outcome_last, shutdown_flag, total_apps, processed_apps, batch_number,
                   batch_size, whole_result, attempted, success_count, ret,
                   ticks_left, cancelled_in_wait, ticks_after_cancel>>

\* time.sleep(10) of the inter-batch loop.
NextWaitSleep ==
    /\ pc = "next_wait_sleep"
    /\ ticks_left' = ticks_left - 1
    /\ pc' = "next_wait_check"
    /\ UNCHANGED <<procVars, itemVars, countVars, outcome_first, outcome_last, shutdown_flag, total_apps, processed_apps, batch_number,
                   batch_size, whole_result, attempted, success_count, ret,
                   cancelled_in_wait, ticks_after_cancel>>

\* The values an iteration leaves behind and nothing reads again: the next
\* iteration overwrites them before any use.
EndIteration ==
    /\ batch_size' = 0
    /\ whole_result' = "none"
    /\ attempted' = 0
    /\ success_count' = 0
    /\ ret' = "none"
    /\ ticks_left' = 0
    /\ ok_items' = 0
    /\ batch_apps' = {}
    /\ installed_apps' = {}
    /\ uninstalled_apps' = {}

\* Mutant: the test of the batch number is missing; every batch is followed
\* by a cleanup unless the flag is set.
PeriodicTest_EveryBatch ==
    /\ pc = "periodic"
    /\ pc' = IF ~shutdown_flag THEN "periodic_cleanup" ELSE "loop_test"
    /\ IF ~shutdown_flag
          THEN UNCHANGED <<batch_size, whole_result, attempted, success_count,
                           ret, ticks_left, ok_items, itemVars>>
          ELSE EndIteration
    /\ UNCHANGED <<procVars, signal_logged, install_calls, uninstall_calls,
                   periodic_cleanups, outcome_first, outcome_last,
                   shutdown_flag, total_apps, processed_apps, batch_number,
                   cancelled_in_wait, ticks_after_cancel>>

\* if batch_number % 5 == 0 and not shutdown_flag: cleanup_system(logger)
PeriodicTest ==
    /\ pc = "periodic"
    /\ pc' = IF batch_number % CleanupEvery = 0 /\ ~shutdown_flag
                THEN "periodic_cleanup" ELSE "loop_test"
    /\ IF batch_number % CleanupEvery = 0 /\ ~shutdown_flag
          THEN UNCHANGED <<batch_size, whole_result, attempted, success_count,
                           ret, ticks_left, ok_items, itemVars>>
          ELSE EndIteration
    /\ UNCHANGED <<procVars, signal_logged, install_calls, uninstall_calls,
                   periodic_cleanups, outcome_first, outcome_last, shutdown_flag, total_apps, processed_apps, batch_number,
                   cancelled_in_wait, ticks_after_cancel>>

\* cleanup_system inside the loop: every exception is swallowed.
PeriodicCleanup ==
    /\ pc = "periodic_cleanup"
    /\ pc' = "loop_test"
    /\ EndIteration
    /\ periodic_cleanups' = periodic_cleanups + 1
    /\ UNCHANGED <<procVars, signal_logged, install_calls, uninstall_calls, outcome_first, outcome_last, shutdown_flag, total_apps, processed_apps, batch_number,
                   cancelled_in_wait, ticks_after_cancel>>

\* The first outcome line: PROCESS STOPPED BY USER / ALL BATCHES COMPLETED!
FinalLog ==
    /\ pc = "final_log"
    /\ outcome_first' = IF shutdown_flag THEN "stopped" ELSE "completed"
    /\ pc' = "final_cleanup"
    /\ UNCHANGED <<procVars, itemVars, countVars, outcome_last, shutdown_flag, total_apps, processed_apps, batch_number,
                   batch_size, whole_result, attempted, success_count, ret,
                   ticks_left, cancelled_in_wait, ticks_after_cancel>>

\* cleanup_system(logger), the final pass.
FinalCleanup ==
    /\ pc = "final_cleanup"
    /\ pc' = "final_outcome"
    /\ UNCHANGED <<procVars, itemVars, countVars, outcome_first, outcome_last, shutdown_flag, total_apps, processed_apps, batch_number,
                   batch_size, whole_result, attempted, success_count, ret,
                   ticks_left, cancelled_in_wait, ticks_after_cancel>>

\* The second outcome line, and main_installation returns.
FinalOutcome ==
    /\ pc = "final_outcome"
    /\ outcome_last' = IF shutdown_flag THEN "stopped" ELSE "completed"
    /\ pc' = "exited"
    /\ UNCHANGED <<procVars, itemVars, countVars, outcome_first, shutdown_flag, total_apps, processed_apps, batch_number,
                   batch_size, whole_result, attempted, success_count, ret,
                   ticks_left, cancelled_in_wait, ticks_after_cancel>>

\* The scheduler on its own: the command-line level is not followed.
Init == SchedInit /\ pid_file = NoFile /\ ProcQuiet

\* The item-by-item specification: every step of the scheduler, for the first
\* MaxBatches batches of a run.
Next ==
    \/ Signal
    \/ Update
    \/ DrawTotal(TotalEdges)
    \/ (batch_number < MaxBatches /\ LoopTest)
    \/ ShutdownCheck
    \/ SelectBatch(BatchEdges, SampleStarts)
    \/ InstallWhole
    \/ InstallItem
    \/ InstallFallbackReturn
    \/ PreWaitCheck
    \/ DrawDelay
    \/ WaitCheck
    \/ WaitSleep
    \/ PostWaitCheck
    \/ UninstallWhole
    \/ UninstallItem
    \/ UninstallFallbackReturn
    \/ UpdateCount
    \/ NextDelay
    \/ NextWaitCheck
    \/ NextWaitSleep
    \/ PeriodicTest
    \/ PeriodicCleanup
    \/ FinalLog
    \/ FinalCleanup
    \/ FinalOutcome

Spec == Init /\ [][Next]_vars

\* Where a signal can arrive while lines 470-517 run, as far as the counters
\* can tell: not at all, before the last check ahead of the uninstall (line
\* 492), after it but before the test of line 516, or after that test.
SignalPoints == {"none", "before_uninstall", "after_uninstall",
                 "after_periodic"}

\* Mutant: the statement processed_apps += batch_size is missing.
RunBatch_NoCount ==
    /\ pc = "install"
    /\ install_calls' = install_calls + 1
    /\ \E sig \in SignalPoints :
          IF shutdown_flag \/ sig = "before_uninstall"
             THEN /\ shutdown_flag' = TRUE
                  /\ signal_logged' = TRUE
                  /\ pc' = "final_log"
                  /\ UNCHANGED <<batch_size, whole_result, attempted,
                                 success_count, ret, ticks_left, ok_items,
                                 uninstall_calls, periodic_cleanups,
                                 batch_apps, uninstalled_apps>>
                  /\ installed_apps' = batch_apps
             ELSE /\ shutdown_flag' = (sig # "none")
                  /\ signal_logged' = (signal_logged \/ sig # "none")
                  /\ uninstall_calls' = uninstall_calls + 1
                  /\ periodic_cleanups' =
                        IF /\ batch_number % CleanupEvery = 0
                           /\ sig # "after_uninstall"
                           THEN periodic_cleanups + 1
                           ELSE periodic_cleanups
                  /\ pc' = "loop_test"
                  /\ EndIteration
    /\ UNCHANGED <<procVars, total_apps, processed_apps, batch_number,
                   outcome_first, outcome_last, cancelled_in_wait,
                   ticks_after_cancel>>

\* Lines 470-517 in one step, for the accounting over whole runs: the batch is
\* installed, waited on and uninstalled.  A signal before the checks that
\* precede the uninstall leaves the loop with nothing counted; otherwise the
\* batch is counted, the periodic cleanup runs if it is due and the flag is
\* clear at line 516, and the loop test comes next.
RunBatch ==
    /\ pc = "install"
    /\ install_calls' = install_calls + 1
    /\ \E sig \in SignalPoints :
          IF shutdown_flag \/ sig = "before_uninstall"
             THEN /\ shutdown_flag' = TRUE
                  /\ signal_logged' = TRUE
                  /\ processed_apps' = processed_apps
                  /\ pc' = "final_log"
                  /\ UNCHANGED <<batch_size, whole_result, attempted,
                                 success_count, ret, ticks_left, ok_items,
                                 uninstall_calls, periodic_cleanups,
                                 batch_apps, uninstalled_apps>>
                  /\ installed_apps' = batch_apps
             ELSE /\ shutdown_flag' = (sig # "none")
                  /\ signal_logged' = (signal_logged \/ sig # "none")
                  /\ uninstall_calls' = uninstall_calls + 1
                  /\ processed_apps' = processed_apps + batch_size
                  /\ periodic_cleanups' =
                        IF /\ batch_number % CleanupEvery = 0
                           /\ sig # "after_uninstall"
                           THEN periodic_cleanups + 1
                           ELSE periodic_cleanups
                  /\ pc' = "loop_test"
                  /\ EndIteration
    /\ UNCHANGED <<procVars, total_apps, batch_number, outcome_first,
                   outcome_last, cancelled_in_wait, ticks_after_cancel>>

\* The whole-run specification: every quota and every batch-size draw, each
\* batch in one step.
NextQuota ==
    \/ Signal
    \/ Update
    \/ DrawTotal(TotalRange)
    \/ LoopTest
    \/ ShutdownCheck
    \/ SelectBatch(BatchRange, FirstSample)
    \/ RunBatch
    \/ FinalLog
    \/ FinalCleanup
    \/ FinalOutcome

SpecQuota == Init /\ [][NextQuota]_vars

\* The steps main_installation takes by itself, each batch in one step, with
\* every quota and the smallest and the largest batch-size draw.
Progress ==
    \/ Update
    \/ DrawTotal(TotalRange)
    \/ ((processed_apps < total_apps /\ ~shutdown_flag
            => batch_number < MaxRunBatches) /\ LoopTest)
    \/ ShutdownCheck
    \/ SelectBatch(BatchEdges, FirstSample)
    \/ RunBatch
    \/ FinalLog
    \/ FinalCleanup
    \/ FinalOutcome

NextRun == Signal \/ Progress

\* Whole runs under the scheduling the program has: one thread that always
\* takes its next step (every apt call returns, every sleep ends); a signal
\* may arrive at any time or never.
SpecRun == Init /\ [][NextRun]_vars /\ WF_vars(Progress)

(***************************************************************************)
(* The command-line level: start, stop and status typed at terminals, the  *)
(* daemons they start, and the pid file they share.  A daemon's            *)
(* main_installation is followed phase by phase.                           *)
(***************************************************************************)

\* The daemon is in a wait that polls its flag and the flag is still clear.
InCancellableWait(d) == dphase[d] \in CancellableWaits /\ ~daemon_flag[d]

\* One more stop has returned.
StopCounted == IF stops_done = 0 THEN 1 ELSE 2

\* A terminal whose command is waiting (for the answer to the prompt, or in
\* stop_process's sleep).
Busy(t) == tpc[t] \in {"confirm", "stop_grace"}

\* Terminal t starts a command while another terminal's command is running.
Overlaps(t) == \E u \in Terminals \ {t} : Busy(u)

\* Mutant: the recorded process is not probed; any pid file counts as stale.
CheckExisting_NeverRunning == [running |-> FALSE, file |-> NoFile]

\* Mutant: a pid file that int() rejects is left in place.
CheckExisting_KeepsCorrupt ==
    IF pid_file = NoFile
       THEN [running |-> FALSE, file |-> NoFile]
    ELSE IF ~IsPidText(pid_file)
       THEN [running |-> FALSE, file |-> pid_file]
    ELSE IF Alive(PidOf(pid_file))
       THEN [running |-> TRUE, file |-> pid_file]
       ELSE [running |-> FALSE, file |-> NoFile]

\* check_existing_process: the value returned and the pid file it leaves.
CheckExisting ==
    IF pid_file = NoFile
       THEN [running |-> FALSE, file |-> NoFile]
    ELSE IF ~IsPidText(pid_file)
       THEN [running |-> FALSE, file |-> NoFile]
    ELSE IF Alive(PidOf(pid_file))
       THEN [running |-> TRUE, file |-> pid_file]
       ELSE [running |-> FALSE, file |-> NoFile]

\* A command starts with nothing of the terminal's previous command left.
Fresh(f, t, v) == [f EXCEPT ![t] = v]

\* "start", up to the prompt: if check_existing_process(): sys.exit(1)
BeginStart(t) ==
    /\ tpc[t] = "prompt"
    /\ tcmd' = [tcmd EXCEPT ![t] = "start"]
    /\ pid_file' = CheckExisting.file
    /\ IF CheckExisting.running
          THEN /\ tpc' = [tpc EXCEPT ![t] = "prompt"]
               /\ msg' = [msg EXCEPT ![t] = "already_running"]
               /\ exit_code' = [exit_code EXCEPT ![t] = 1]
          ELSE /\ tpc' = [tpc EXCEPT ![t] = "confirm"]
               /\ msg' = [msg EXCEPT ![t] = "start_in_background?"]
               /\ exit_code' = [exit_code EXCEPT ![t] = 0]
    /\ stop_pid' = Fresh(stop_pid, t, 0)
    /\ sent' = Fresh(sent, t, <<>>)
    /\ overlap' = (overlap \/ Overlaps(t))
    /\ UNCHANGED <<schedVars, itemVars, countVars, dphase, daemon_flag, term_in_wait, stops_done>>

\* The prompt answered with anything but "yes": print "Cancelled.", exit 0.
ConfirmNo(t) ==
    /\ tpc[t] = "confirm"
    /\ tpc' = [tpc EXCEPT ![t] = "prompt"]
    /\ msg' = [msg EXCEPT ![t] = "cancelled"]
    /\ exit_code' = [exit_code EXCEPT ![t] = 0]
    /\ UNCHANGED <<schedVars, itemVars, countVars, pid_file, tcmd, stop_pid, sent, dphase,
                   daemon_flag, term_in_wait, stops_done, overlap>>

\* The prompt answered "yes": daemonize() forks twice (the command returns to
\* the shell), the daemon writes its pid, registers cleanup_pid_file and the
\* signal handler, and enters main_installation.
Daemonize(t) ==
    /\ tpc[t] = "confirm"
    /\ \E d \in Daemons :
          /\ dphase[d] = "unborn"
          /\ \A e \in Daemons : e < d => dphase[e] # "unborn"
          /\ dphase' = [dphase EXCEPT ![d] = "update"]
          /\ pid_file' = PidText(d)
    /\ tpc' = [tpc EXCEPT ![t] = "prompt"]
    /\ msg' = [msg EXCEPT ![t] = "started"]
    /\ exit_code' = [exit_code EXCEPT ![t] = 0]
    /\ stops_done' = 0
    /\ UNCHANGED <<schedVars, itemVars, countVars, tcmd, stop_pid, sent, daemon_flag, term_in_wait,
                   overlap>>

\* Mutant: the pid file is not removed after the probe.
StopCleanup_Keeps(file) == file

\* Mutant: the OSError handler does not remove the pid file.
StopCleanupError_Keeps(file) == file

\* "if os.path.exists(pid_file): os.remove(pid_file)" after the probe.
StopCleanup(file) == NoFile
\* The same in the ValueError handler.
StopCleanupInvalid(file) == NoFile
\* The same in the OSError handler.
StopCleanupError(file) == NoFile

\* The re-probe os.kill(pid, 0) succeeds, so SIGKILL is sent.
StillRunning(pid) == Alive(pid)

\* stop_process up to time.sleep(2): no pid file, a pid file that int()
\* rejects (ValueError), os.kill(pid, SIGTERM) failing (OSError), or the
\* signal delivered, which runs the daemon's signal_handler.
StopSignal(t) ==
    /\ tpc[t] = "prompt"
    /\ tcmd' = [tcmd EXCEPT ![t] = "stop"]
    /\ exit_code' = [exit_code EXCEPT ![t] = 0]
    /\ overlap' = (overlap \/ Overlaps(t))
    /\ IF pid_file = NoFile
          THEN /\ msg' = [msg EXCEPT ![t] = "no_process"]
               /\ stop_pid' = Fresh(stop_pid, t, 0)
               /\ sent' = Fresh(sent, t, <<>>)
               /\ tpc' = [tpc EXCEPT ![t] = "prompt"]
               /\ stops_done' = StopCounted
               /\ UNCHANGED <<pid_file, daemon_flag, term_in_wait>>
       ELSE IF ~IsPidText(pid_file)
          THEN /\ msg' = [msg EXCEPT ![t] = "invalid"]
               /\ stop_pid' = Fresh(stop_pid, t, 0)
               /\ sent' = Fresh(sent, t, <<>>)
               /\ pid_file' = StopCleanupInvalid(pid_file)
               /\ tpc' = [tpc EXCEPT ![t] = "prompt"]
               /\ stops_done' = StopCounted
               /\ UNCHANGED <<daemon_flag, term_in_wait>>
       ELSE IF ~Alive(PidOf(pid_file))
          THEN /\ msg' = [msg EXCEPT ![t] = "error"]
               /\ stop_pid' = Fresh(stop_pid, t, PidOf(pid_file))
               /\ sent' = Fresh(sent, t, <<"TERM">>)
               /\ pid_file' = StopCleanupError(pid_file)
               /\ tpc' = [tpc EXCEPT ![t] = "prompt"]
               /\ stops_done' = StopCounted
               /\ UNCHANGED <<daemon_flag, term_in_wait>>
          ELSE /\ msg' = [msg EXCEPT ![t] = "sent"]
               /\ stop_pid' = Fresh(stop_pid, t, PidOf(pid_file))
               /\ sent' = Fresh(sent, t, <<"TERM">>)
               /\ daemon_flag' = [daemon_flag EXCEPT ![PidOf(pid_file)] = TRUE]
               /\ term_in_wait' = [term_in_wait EXCEPT ![PidOf(pid_file)] =
                                      @ \/ InCancellableWait(PidOf(pid_file))]
               /\ tpc' = [tpc EXCEPT ![t] = "stop_grace"]
               /\ UNCHANGED <<pid_file, stops_done>>
    /\ UNCHANGED <<schedVars, itemVars, countVars, dphase>>

\* stop_process after time.sleep(2): os.kill(pid, 0); SIGKILL if that
\* succeeds; then the pid file is removed if it exists.
StopProbe(t) ==
    /\ tpc[t] = "stop_grace"
    /\ IF StillRunning(stop_pid[t])
          THEN /\ sent' = [sent EXCEPT ![t] = Append(@, "KILL")]
               /\ dphase' = [dphase EXCEPT ![stop_pid[t]] = "killed"]
               /\ daemon_flag' = [daemon_flag EXCEPT ![stop_pid[t]] = FALSE]
               /\ term_in_wait' = [term_in_wait EXCEPT ![stop_pid[t]] = FALSE]
               /\ msg' = [msg EXCEPT ![t] = "killed"]
          ELSE /\ msg' = [msg EXCEPT ![t] = "stopped"]
               /\ UNCHANGED <<sent, dphase, daemon_flag, term_in_wait>>
    /\ pid_file' = StopCleanup(pid_file)
    /\ tpc' = [tpc EXCEPT ![t] = "prompt"]
    /\ stops_done' = StopCounted
    /\ UNCHANGED <<schedVars, itemVars, countVars, tcmd, stop_pid, exit_code, overlap>>

\* "status": RUNNING exactly when the pid file exists.
Status(t) ==
    /\ tpc[t] = "prompt"
    /\ tcmd' = [tcmd EXCEPT ![t] = "status"]
    /\ msg' = [msg EXCEPT ![t] =
                  IF pid_file # NoFile THEN "running" ELSE "not_running"]
    /\ exit_code' = [exit_code EXCEPT ![t] = 0]
    /\ stop_pid' = Fresh(stop_pid, t, 0)
    /\ sent' = Fresh(sent, t, <<>>)
    /\ overlap' = (overlap \/ Overlaps(t))
    /\ UNCHANGED <<schedVars, itemVars, countVars, pid_file, tpc, dphase, daemon_flag,
                   term_in_wait, stops_done>>

\* The phase main_installation moves to from phase ph: flag is shutdown_flag
\* as the phase's closing test reads it, more is processed_apps < total_apps,
\* due is batch_number % 5 == 0.
NextPhase(ph, flag, more, due) ==
    CASE ph = "update" ->
            IF flag THEN "final_cleanup" ELSE "install"
      [] ph = "install" ->
            IF flag THEN "final_cleanup" ELSE "install_wait"
      [] ph = "install_wait" ->
            IF flag THEN "final_cleanup" ELSE "uninstall"
      [] ph = "uninstall" ->
            IF more /\ ~flag THEN "next_wait"
            ELSE IF due /\ ~flag THEN "periodic_cleanup"
            ELSE "final_cleanup"
      [] ph = "next_wait" ->
            IF due /\ ~flag THEN "periodic_cleanup"
            ELSE IF flag THEN "final_cleanup" ELSE "install"
      [] ph = "periodic_cleanup" ->
            IF more /\ ~flag THEN "install" ELSE "final_cleanup"

\* A daemon's main_installation moves on to its next phase.
DaemonStep(d) ==
    /\ dphase[d] \in RunningPhases \ {"final_cleanup"}
    /\ \E more \in BOOLEAN, due \in BOOLEAN :
          /\ dphase[d] = "next_wait" => more
          /\ dphase' = [dphase EXCEPT ![d] =
                           NextPhase(dphase[d], daemon_flag[d], more, due)]
    /\ UNCHANGED <<schedVars, itemVars, countVars, pid_file, tpc, tcmd, stop_pid, sent, msg,
                   exit_code, daemon_flag, term_in_wait, stops_done, overlap>>

\* cleanup_pid_file: if os.path.exists(pid_file): os.remove(pid_file)
CleanupPidFile(d) == NoFile

\* The final cleanup ends, main_installation returns and the interpreter
\* exits, running the atexit hook.
DaemonExit(d) ==
    /\ dphase[d] = "final_cleanup"
    /\ dphase' = [dphase EXCEPT ![d] = "exited"]
    /\ daemon_flag' = [daemon_flag EXCEPT ![d] = FALSE]
    /\ term_in_wait' = [term_in_wait EXCEPT ![d] = FALSE]
    /\ pid_file' = CleanupPidFile(d)
    /\ UNCHANGED <<schedVars, itemVars, countVars, tpc, tcmd, stop_pid, sent, msg, exit_code,
                   stops_done, overlap>>

NextProc ==
    \/ \E t \in Terminals :
          \/ BeginStart(t)
          \/ ConfirmNo(t)
          \/ Daemonize(t)
          \/ StopSignal(t)
          \/ StopProbe(t)
          \/ Status(t)
    \/ \E d \in Daemons :
          \/ DaemonStep(d)
          \/ DaemonExit(d)

InitProc == SchedInit /\ ProcInit

SpecProc == InitProc /\ [][NextProc]_vars

(***************************************************************************)
(* Properties.                                                             *)
(***************************************************************************)

FinalPcs == {"final_log", "final_cleanup", "final_outcome", "exited"}

\* C1: processed_apps never exceeds total_apps, and a run that logs the
\* Completed outcome has processed exactly total_apps, for every quota in
\* 161..199 and every sequence of batch-size draws in 5..14.
C1_ExactQuota ==
    /\ processed_apps <= total_apps
    /\ outcome_first = "completed" => processed_apps = total_apps

\* A run with the largest quota has ended Completed.
C1_Witness ==
    /\ pc = "exited"
    /\ outcome_first = "completed"
    /\ total_apps = TotalMax
    /\ processed_apps = TotalMax

\* C9: every selected batch has 5..14 items, except a batch shrunk to the
\* remainder, which has 1..14 items and brings processed_apps to exactly
\* total_apps; no batch of size 0 is selected.
C9_BatchSizeBounds ==
    pc = "install" =>
        /\ batch_size >= 1
        /\ batch_size <= BatchMax
        /\ processed_apps + batch_size <= total_apps
        /\ batch_size < BatchMin => processed_apps + batch_size = total_apps

\* A final batch of a single item has been selected.
C9_Witness ==
    /\ pc = "install"
    /\ batch_size = 1
    /\ processed_apps + batch_size = total_apps

\* C5: once the flag is set during the post-install wait (lines 481-494), at
\* most one more time.sleep(10) ends before the loop is left, and the
\* scheduler goes from the wait to the Stopped path and nowhere else,
\* whatever wait was drawn.
C5_CancelWithinOneTick ==
    cancelled_in_wait =>
        /\ ticks_after_cancel <= 1
        /\ pc \in InstallWaitPcs \cup FinalPcs
        /\ pc \in FinalPcs \ {"final_log"} => outcome_first = "stopped"

\* The flag was set while a sleep was under way with more of the wait left;
\* that sleep ended and the Stopped outcome was logged.
C5_Witness ==
    /\ cancelled_in_wait
    /\ ticks_after_cancel = 1
    /\ ticks_left >= 1
    /\ pc = "final_cleanup"
    /\ outcome_first = "stopped"

\* The install or uninstall phase has just returned to main_installation.
PhaseReturned == pc \in {"pre_wait_check", "update_count"}

\* C8 as stated: in both phases a whole-batch call that times out and one
\* that reports failure each trigger the item-by-item pass.
C8_TimeoutAndFailureFallBack ==
    (PhaseReturned /\ whole_result \in {"fail", "timeout"}) => attempted >= 1

\* C8, amended: in both phases a whole-batch call that reports failure
\* triggers the item-by-item pass, a whole-batch call that times out (or
\* raises) makes the phase return False with no item attempted, and in each
\* case the phase returns to main_installation, which goes on.
C8_FailureFallsBack ==
    PhaseReturned =>
        /\ whole_result = "fail" => attempted >= 1
        /\ pc = "pre_wait_check" /\ whole_result = "fail"
              => attempted = SampleLen(batch_size)
        /\ whole_result \in {"timeout", "error"}
              => attempted = 0 /\ ret = FALSE
        /\ whole_result \in Outcomes

\* The uninstall phase returned after its whole-batch call failed and every
\* item was then removed one by one.
C8_Witness ==
    /\ pc = "update_count"
    /\ whole_result = "fail"
    /\ attempted = SampleLen(batch_size)
    /\ ret = TRUE

\* The daemons that are inside main_installation.
Running == {d \in Daemons : Alive(d)}

\* C2 as stated: under every interleaving of start, stop and daemon-exit
\* steps, no two live processes are inside main_installation.
C2_SingleInstance == Cardinality(Running) <= 1

\* C2, amended: as long as no command has been started while another
\* command was still running (waiting at its prompt, or in stop's grace
\* period), no two live processes are inside main_installation.
C2_SingleInstanceSerial == ~overlap => Cardinality(Running) <= 1

\* Commands were typed one after the other, a daemon is running, and the
\* last start was refused because of it.
C2_Witness ==
    /\ ~overlap
    /\ Cardinality(Running) = 1
    /\ \E t \in Terminals : tcmd[t] = "start" /\ msg[t] = "already_running"
    /\ \E d \in Daemons : dphase[d] \in {"exited", "killed"}

\* The pid file names a process that is alive.
NamesLive == pid_file # NoFile /\ IsPidText(pid_file) /\ Alive(PidOf(pid_file))

\* C3: check_existing_process, called by start: if the pid file names a live
\* process it reports running (start exits with status 1, nothing is
\* daemonized) and leaves the pid file as it is; if the pid file names a
\* process that does not exist, or holds text that is no number, it deletes
\* the pid file and reports not running (start goes on to its prompt).
C3_CheckExistingContract ==
    [][\A t \in Terminals :
          BeginStart(t) =>
              /\ NamesLive =>
                    /\ pid_file' = pid_file
                    /\ tpc'[t] = "prompt"
                    /\ msg'[t] = "already_running"
                    /\ exit_code'[t] = 1
                    /\ dphase' = dphase
              /\ (pid_file # NoFile /\ ~NamesLive) =>
                    /\ pid_file' = NoFile
                    /\ tpc'[t] = "confirm"
              /\ pid_file = NoFile =>
                    /\ pid_file' = NoFile
                    /\ tpc'[t] = "confirm"]_vars

\* A start was refused with status 1 while the daemon named by the pid file
\* runs; an earlier daemon has already exited.
C3_Witness ==
    /\ NamesLive
    /\ \E t \in Terminals :
          tcmd[t] = "start" /\ msg[t] = "already_running" /\ exit_code[t] = 1
    /\ \E d \in Daemons : dphase[d] = "exited"

\* C4: a daemon that stop's SIGTERM reached in a cancellable wait is not
\* force-killed by that stop (or any other) before it has run its Stopped
\* path to the end.
C4_StopInWaitEndsCleanly ==
    [][\A d \in Daemons : term_in_wait[d] => dphase'[d] # "killed"]_vars

\* C6: stop_process with a pid file present signals SIGTERM first, and after
\* the grace period sends SIGKILL exactly when the process still exists; on
\* every path (the process went away, it had to be killed, the signal could
\* not be sent, the pid file was corrupt) the pid file is absent when
\* stop_process returns.
C6_StopEscalatesAndCleans ==
    [][\A t \in Terminals :
          /\ StopSignal(t) =>
                /\ (pid_file # NoFile /\ IsPidText(pid_file))
                      => sent'[t] = <<"TERM">>
                /\ tpc'[t] = "stop_grace" <=> NamesLive
                /\ tpc'[t] = "prompt" => pid_file' = NoFile
                /\ dphase' = dphase
          /\ StopProbe(t) =>
                /\ sent[t] = <<"TERM">>
                /\ Alive(stop_pid[t]) =>
                      /\ sent'[t] = <<"TERM", "KILL">>
                      /\ dphase'[stop_pid[t]] = "killed"
                /\ ~Alive(stop_pid[t]) =>
                      /\ sent'[t] = <<"TERM">>
                      /\ dphase' = dphase
                /\ tpc'[t] = "prompt"
                /\ pid_file' = NoFile]_vars

\* A stop has returned after both signals; the daemon is dead and the pid
\* file is gone.
C6_Witness ==
    \E t \in Terminals :
        /\ tpc[t] = "prompt"
        /\ tcmd[t] = "stop"
        /\ sent[t] = <<"TERM", "KILL">>
        /\ dphase[stop_pid[t]] = "killed"
        /\ pid_file = NoFile

\* C7: a stop that follows a stop, with no pid file written in between,
\* finds no pid file: it sends no signal, reports that nothing is running,
\* ends with status 0 and leaves no pid file, whatever the first stop found.
C7_StopIdempotent ==
    [][\A t \in Terminals :
          (stops_done >= 1 /\ StopSignal(t)) =>
              /\ pid_file = NoFile
              /\ pid_file' = NoFile
              /\ sent'[t] = <<>>
              /\ msg'[t] = "no_process"
              /\ exit_code'[t] = 0
              /\ tpc'[t] = "prompt"
              /\ daemon_flag' = daemon_flag
              /\ dphase' = dphase]_vars

\* Two stops in a row after a daemon was started: the first killed it, the
\* second reported that nothing is running.
C7_Witness ==
    /\ stops_done = 2
    /\ pid_file = NoFile
    /\ \E t, u \in Terminals :
          /\ tcmd[t] = "stop" /\ msg[t] = "no_process" /\ sent[t] = <<>>
          /\ tcmd[u] = "stop" /\ msg[u] = "killed"
    /\ \E d \in Daemons : dphase[d] = "killed"

\* C10: cleanup_pid_file, run when a daemon exits, deletes the pid file only
\* if it still names that daemon: a pid file naming another process stays.
C10_ReleaseOnlyOwnFile ==
    [][\A d \in Daemons :
          DaemonExit(d) => (pid_file # PidText(d) => pid_file' = pid_file)]_vars

\* C11: the signal handler, wherever it interrupts the scheduler, changes
\* nothing but the flag, which it sets: it writes no log line, and leaves
\* processed_apps, batch_number, the current batch and the pid file as they
\* are.
C11_HandlerOnlySetsFlag ==
    [][Signal =>
          /\ shutdown_flag' = TRUE
          /\ signal_logged' = signal_logged
          /\ processed_apps' = processed_apps
          /\ batch_number' = batch_number
          /\ batch_size' = batch_size
          /\ pid_file' = pid_file
          /\ pc' = pc]_vars

\* Positions between the call of install_batch and the call of
\* uninstall_batch (lines 471-494).
InstalledPcs == {"install_item", "pre_wait_check"} \cup InstallWaitPcs

\* The loop was left with the last installed batch not uninstalled.
StoppedAfterInstall ==
    pc \in FinalPcs /\ install_calls = uninstall_calls + 1

\* C12: when one of the checks after the install phase or in the
\* post-install wait (lines 477, 488, 492) finds the flag set, the scheduler
\* goes straight to the Stopped path: uninstall_batch is not called for that
\* batch, now or later, processed_apps stays as it was when the batch was
\* selected, and the outcome logged is Stopped.
C12_CancelSkipsUninstall ==
    /\ [](StoppedAfterInstall =>
             /\ shutdown_flag
             /\ outcome_first \in {"none", "stopped"})
    /\ [][/\ (shutdown_flag /\ pc \in {"pre_wait_check", "post_wait_check"}
               /\ pc' # pc) => (pc' = "final_log" /\ StoppedAfterInstall')
          /\ (shutdown_flag /\ pc = "wait_check" /\ pc' # pc)
                => pc' = "post_wait_check"
          /\ (pc \in InstalledPcs \/ StoppedAfterInstall) =>
                /\ uninstall_calls' = uninstall_calls
                /\ processed_apps' = processed_apps
          /\ StoppedAfterInstall => StoppedAfterInstall']_vars

\* One batch went through; the second was installed, the flag was found set
\* after its wait, and the run ended Stopped with only the first counted.
C12_Witness ==
    /\ pc = "exited"
    /\ cancelled_in_wait
    /\ install_calls = 2
    /\ uninstall_calls = 1
    /\ processed_apps = BatchMax
    /\ outcome_first = "stopped"

\* C13: batch_number is incremented only when a batch's uninstall phase
\* completes, so after the loop (Completed or Stopped) the batch_number that
\* is reported equals the number of batches that were uninstalled.
C13_BatchNumberCountsUninstalls ==
    pc \in FinalPcs => batch_number = uninstall_calls

\* C14: in the item-by-item pass of either phase every item of the batch is
\* attempted, one after the other and once each, whatever the earlier items
\* did (success, failure, timeout): when the phase returns after its
\* whole-batch call failed, as many items were attempted as the batch holds.
C14_EveryItemAttemptedOnce ==
    (PhaseReturned /\ whole_result = "fail")
        => attempted = SampleLen(batch_size)

\* C15: when the whole-batch install reported failure, the count that the
\* fallback logs (success_count of n) is the number of items whose own
\* install ended with return code 0, for every count from 0 to n; and
\* whatever the count, 0 included, the scheduler goes on to the post-install
\* wait when the flag is clear.
C15_FallbackCountAndProgress ==
    /\ [](pc = "install_item" => success_count = ok_items)
    /\ []((pc = "pre_wait_check" /\ whole_result = "fail") =>
             /\ success_count = ok_items
             /\ success_count \in 0..SampleLen(batch_size)
             /\ attempted = SampleLen(batch_size)
             /\ ret = (success_count > 0))
    /\ [][(pc = "pre_wait_check" /\ ~shutdown_flag /\ pc' # pc)
              => pc' = "draw_delay"]_vars

\* The fallback of a batch of 14 installed no item at all (0/14), and the
\* scheduler is in the post-install wait.
C15_Witness ==
    /\ pc = "wait_sleep"
    /\ whole_result = "fail"
    /\ batch_size = BatchMax
    /\ attempted = BatchMax
    /\ success_count = 0
    /\ ret = FALSE

\* C16: every run reaches the end of main_installation: without a signal it
\* ends Completed with the quota reached, with the flag set it ends Stopped;
\* on the way processed_apps never decreases and every batch that is
\* uninstalled raises it by at least 1.
C16_Terminates ==
    /\ <>(pc = "exited")
    /\ [](pc = "exited" =>
             IF shutdown_flag
                THEN outcome_last = "stopped"
                ELSE /\ outcome_first = "completed"
                     /\ outcome_last = "completed"
                     /\ processed_apps = total_apps)
    /\ [][/\ processed_apps' >= processed_apps
          /\ uninstall_calls' # uninstall_calls
                => processed_apps' > processed_apps]_vars

\* A run with the smallest quota ended Completed after 12 batches, no signal
\* having arrived.
C16_Witness ==
    /\ pc = "exited"
    /\ ~shutdown_flag
    /\ total_apps = TotalMin
    /\ processed_apps = TotalMin
    /\ batch_number = 12
    /\ outcome_last = "completed"

\* The pid file names a process that does not exist.
Stale ==
    pid_file # NoFile /\ IsPidText(pid_file) /\ ~Alive(PidOf(pid_file))

\* C17: a stale pid file heals itself: the next command that looks at the
\* pid file (start, stop or status) does not take the instance to be running
\* and removes the stale file.
C17_StalePidSelfHeals ==
    [][\A t \in Terminals :
          (Stale /\ (BeginStart(t) \/ StopSignal(t) \/ Status(t))) =>
              /\ pid_file' = NoFile
              /\ msg'[t] \notin {"already_running", "running", "sent"}]_vars

\* Positions of the inter-batch delay (lines 510-513).
NextWaitPcs == {"next_wait_check", "next_wait_sleep"}

\* Periodic cleanups that are due once batch n has been uninstalled.
CleanupsDue(n) == n \div CleanupEvery

\* C18 as stated: the periodic cleanup of a batch whose number is a multiple
\* of 5 runs once, directly after the uninstall and before the inter-batch
\* delay: while that delay runs with the flag clear, every cleanup due so far
\* has run; and no cleanup runs after any other batch.
C18_CleanupBeforeDelay ==
    /\ periodic_cleanups <= CleanupsDue(batch_number)
    /\ (pc \in NextWaitPcs /\ ~shutdown_flag)
          => periodic_cleanups = CleanupsDue(batch_number)

\* C18, amended: the periodic cleanup of a batch whose number is a multiple
\* of 5 runs once, after the inter-batch delay of that iteration and before
\* the next loop test and batch selection, if the flag is clear when the
\* delay has ended; no cleanup runs after any other batch.
C18_CleanupAfterDelay ==
    /\ periodic_cleanups <= CleanupsDue(batch_number)
    /\ periodic_cleanups >= CleanupsDue(batch_number - 1)
    /\ pc \in {"update_count", "next_delay", "periodic"} \cup NextWaitPcs
          => periodic_cleanups = CleanupsDue(batch_number - 1)
    /\ (pc = "loop_test" /\ ~shutdown_flag)
          => periodic_cleanups = CleanupsDue(batch_number)
    /\ pc \in {"shutdown_check", "select", "install"}
          => periodic_cleanups = CleanupsDue(batch_number - 1)

\* The fifth batch was uninstalled and counted, its inter-batch delay is
\* over and the cleanup has run once; the loop test comes next.
C18_Witness ==
    /\ pc = "loop_test"
    /\ ~shutdown_flag
    /\ batch_number = CleanupEvery
    /\ uninstall_calls = CleanupEvery
    /\ processed_apps < total_apps
    /\ periodic_cleanups = 1

\* C19: stop_process never deletes a pid file that names a live daemon
\* other than the process it signalled; in particular a pid file written by
\* a new instance during stop's grace period is still there when stop
\* returns.
C19_StopKeepsOthersPidFile ==
    [][\A t \in Terminals :
          (StopProbe(t) /\ NamesLive /\ PidOf(pid_file) # stop_pid[t])
              => pid_file' = pid_file]_vars

\* C20: whenever the signal arrives, the two outcome lines of a run (the one
\* logged before the final cleanup and the one logged after it) name the
\* same outcome, and that outcome is Completed exactly when processed_apps
\* reached total_apps.
C20_OutcomeLinesAgree ==
    pc = "exited" =>
        /\ outcome_first = outcome_last
        /\ outcome_first = "completed" <=> processed_apps = total_apps

\* C21: calls of install_batch and uninstall_batch alternate, install first,
\* so at most one batch is installed and not yet uninstalled; and each call
\* of uninstall_batch receives exactly the items that the install_batch call
\* of the same iteration received (the sample drawn for that iteration).
C21_AlternateSameItems ==
    /\ [](install_calls - uninstall_calls \in {0, 1})
    /\ [](pc \in InstalledPcs =>
             /\ install_calls = uninstall_calls + 1
             /\ installed_apps = batch_apps)
    /\ [][/\ install_calls' # install_calls =>
                /\ install_calls = uninstall_calls
                /\ install_calls' = install_calls + 1
                /\ installed_apps' = batch_apps
                /\ batch_apps \subseteq Catalog
                /\ Cardinality(batch_apps) = SampleLen(batch_size)
          /\ uninstall_calls' # uninstall_calls =>
                /\ install_calls = uninstall_calls + 1
                /\ uninstall_calls' = uninstall_calls + 1
                /\ uninstalled_apps' = installed_apps]_vars

\* The second batch, the 14 items from position 2 on, was installed and then
\* uninstalled with the same items.
C21_Witness ==
    /\ pc = "update_count"
    /\ install_calls = 2
    /\ uninstall_calls = 2
    /\ installed_apps = 2..(BatchMax + 1)
    /\ uninstalled_apps = installed_apps

====
